---- MODULE Spec2Model ----
(***************************************************************************)
(* Smart Farmer Geo Dashboard: the App component (area selection, the      *)
(* analysis request/response cycle) and the ResultsPanel classifier.       *)
(*                                                                         *)
(* Numbers are fixed point: latitudes and longitudes in micro-degrees,     *)
(* radii in metres, cosines in thousandths, rainfall in hundredths of a    *)
(* millimetre.  An optional value (null / undefined in the source) is a    *)
(* sequence of length 0 or 1: None or Some(v).                             *)
(***************************************************************************)
EXTENDS Integers, Sequences, FiniteSets, TLC

None == << >>
Some(v) == << v >>

(* ----------------------------- bounds ---------------------------------- *)
\* longest vertex list a polygon-complete event delivers
MaxVerts == 3
\* cap on simultaneously outstanding POST /analyze requests
MaxInFlight == 2
\* cap on outstanding getCurrentPosition calls
MaxGeoPending == 1

(* --------------------------- program constants ------------------------- *)
NumPoints == 32
MetersPerDegree == 111320
DefaultRadius == 250
RADIUS_OPTIONS == {100, 250, 500, 1000}
defaultCenter == [lat |-> 20593700, lng |-> 78962900]

MsgGeoDenied == "Unable to get your location. Please enable location services."
MsgGeoUnsupported == "Geolocation is not supported by your browser."
MsgEnableFirst == "Please enable location first by clicking \"Enable Location\""
MsgSelectFirst == "Please select a farm area first."
MsgGeneric == "Failed to analyze the area. Please try again."

(* ------------------------------ inputs --------------------------------- *)
\* places the user clicks on, or the device reports as its position
Points == { [lat |-> 0, lng |-> 10000000], [lat |-> 60000000, lng |-> 20000000] }

\* k-th vertex of a hand-drawn shape
Vertex(k) == [lat |-> 20000000 + 1000 * k, lng |-> 78000000 + 1000 * k * k]

\* vertex lists delivered by the drawing overlay on completion
DrawnPaths == { [i \in 1..n |-> Vertex(s + i)] : n \in 2..MaxVerts, s \in 0..1 }

\* message carried by a non-success response body
ServerMsg == "Geometry too large"

(* --------------------------- circleToPolygon --------------------------- *)
\* 1000 * cos(2*pi*k/32) for k in 0..8
CosFirstQuadrant == << 1000, 981, 924, 831, 707, 556, 383, 195, 0 >>

\* 1000 * Math.cos((i / 32) * 2 * Math.PI)
CosSample(i) ==
    LET k == i % NumPoints
    IN  IF k <= 8 THEN CosFirstQuadrant[k + 1]
        ELSE IF k <= 16 THEN 0 - CosFirstQuadrant[16 - k + 1]
        ELSE IF k <= 24 THEN 0 - CosFirstQuadrant[k - 16 + 1]
        ELSE CosFirstQuadrant[32 - k + 1]

\* 1000 * Math.sin((i / 32) * 2 * Math.PI)
SinSample(i) == CosSample(i + 24)

\* 1000 * Math.cos(center.lat * Math.PI / 180), for the latitudes of Points
CosLat(lat) ==
    CASE lat = 0 -> 1000
      [] lat = 60000000 -> 500
      [] lat = 20593700 -> 936

\* radius / 111320 and radius / (111320 * cos(lat)) are taken in micro-degrees
\* before the multiplication by the cosine or sine in thousandths
SamplePoint(center, radius, i) ==
    [ lat |-> center.lat
              + (((radius * 1000000) \div MetersPerDegree) * CosSample(i)) \div 1000,
      lng |-> center.lng
              + (((radius * 1000000)
                    \div ((MetersPerDegree * CosLat(center.lat)) \div 1000))
                 * SinSample(i)) \div 1000 ]

\* the loop stopping one sample early (i < numPoints - 1)
circleToPolygonOneShort(center, radius, numPoints) ==
    [ k \in 1..(numPoints - 1) |-> SamplePoint(center, radius, k - 1) ]

\* for (let i = 0; i < numPoints; i++) points.push({ lat, lng })
circleToPolygon(center, radius, numPoints) ==
    [ k \in 1..numPoints |-> SamplePoint(center, radius, k - 1) ]

(* --------------------------- ResultsPanel ------------------------------ *)
\* An analysis result is a record
\*   [ rainfall |-> None or Some([ features   |-> None or Some(sequence of
\*                                                 [rain |-> None or Some(n)]),
\*                                 statistics |-> None or Some(
\*                                     [total_rainfall |-> None or Some(n)]) ]),
\*     drought  |-> None or Some([status |-> None or Some(string)]),
\*     ndvi     |-> None or Some(n),
\*     landcover |-> None or Some(function from class codes to pixel counts) ]
\* with rainfall amounts n in hundredths of a millimetre, ndvi in thousandths,
\* dates as day numbers of a non-leap year, and each entry of features a
\* record [date |-> None or Some(day), rain |-> None or Some(n)].

\* JavaScript truthiness of an optional number: undefined, null and 0 are falsy
TruthyNumber(m) == m # None /\ m[1] # 0

\* JavaScript truthiness of an optional string: undefined, null and '' are falsy
TruthyString(m) == m # None /\ m[1] # ""

\* x || 0 for an optional number
OrZero(m) == IF TruthyNumber(m) THEN m[1] ELSE 0

\* Number.prototype.toFixed(1) of a non-negative amount in hundredths: the
\* decimal string with one fractional digit, as a count of tenths.  (The
\* inputs avoid amounts whose hundredths digit is 5, where the binary value
\* decides the rounding.)
toFixed1(hundredths) == (hundredths + 5) \div 10

RECURSIVE SumRain(_)
\* rainfall.reduce((sum, d) => sum + (d.rain || 0), 0)
SumRain(series) ==
    IF series = << >> THEN 0
    ELSE OrZero(Head(series).rain) + SumRain(Tail(series))

\* results.rainfall?.features || []
rainfallDataOf(results) ==
    IF results.rainfall = None THEN << >>
    ELSE IF results.rainfall[1].features = None THEN << >>
    ELSE results.rainfall[1].features[1]

\* results.rainfall?.statistics || {}
rainfallStatsOf(results) ==
    IF results.rainfall = None THEN [total_rainfall |-> None]
    ELSE IF results.rainfall[1].statistics = None THEN [total_rainfall |-> None]
    ELSE results.rainfall[1].statistics[1]

\* results.drought || {}
droughtDataOf(results) ==
    IF results.drought = None THEN [status |-> None] ELSE results.drought[1]

\* number of entries of a series that carry a rain value
RECURSIVE CountPresent(_)
CountPresent(series) ==
    IF series = << >> THEN 0
    ELSE (IF Head(series).rain = None THEN 0 ELSE 1) + CountPresent(Tail(series))

\* the fallback averaging over the entries that carry a rain value only
droughtFromRainfallPresentOnly(rainfall) ==
    IF Len(rainfall) = 0 \/ CountPresent(rainfall) = 0
      THEN [status |-> "Unknown", class |-> "status-warning", emoji |-> "question"]
    ELSE IF SumRain(rainfall) >= 500 * CountPresent(rainfall)
      THEN [status |-> "No Drought", class |-> "status-healthy", emoji |-> "droplet"]
    ELSE IF SumRain(rainfall) >= 200 * CountPresent(rainfall)
      THEN [status |-> "Mild Drought", class |-> "status-warning", emoji |-> "warning"]
    ELSE [status |-> "Severe Drought", class |-> "status-critical", emoji |-> "fire"]

\* the fallback without the check for an empty series: 0 / 0 is NaN, and
\* every comparison with NaN is false
droughtFromRainfallNoEmptyCheck(rainfall) ==
    IF Len(rainfall) > 0 /\ SumRain(rainfall) >= 500 * Len(rainfall)
      THEN [status |-> "No Drought", class |-> "status-healthy", emoji |-> "droplet"]
    ELSE IF Len(rainfall) > 0 /\ SumRain(rainfall) >= 200 * Len(rainfall)
      THEN [status |-> "Mild Drought", class |-> "status-warning", emoji |-> "warning"]
    ELSE [status |-> "Severe Drought", class |-> "status-critical", emoji |-> "fire"]

\* the fallback on the rainfall series (avgRain = sum / length, compared
\* without dividing)
droughtFromRainfall(rainfall) ==
    IF Len(rainfall) = 0
      THEN [status |-> "Unknown", class |-> "status-warning", emoji |-> "question"]
    ELSE IF SumRain(rainfall) >= 500 * Len(rainfall)
      THEN [status |-> "No Drought", class |-> "status-healthy", emoji |-> "droplet"]
    ELSE IF SumRain(rainfall) >= 200 * Len(rainfall)
      THEN [status |-> "Mild Drought", class |-> "status-warning", emoji |-> "warning"]
    ELSE [status |-> "Severe Drought", class |-> "status-critical", emoji |-> "fire"]

\* getDroughtStatus with the rainfall series consulted first
getDroughtStatusRainfallFirst(rainfall, droughtData) ==
    IF Len(rainfall) > 0 THEN droughtFromRainfall(rainfall)
    ELSE IF TruthyString(droughtData.status)
    THEN LET status == droughtData.status[1]
         IN  IF status = "Normal"
               THEN [status |-> "No Drought", class |-> "status-healthy", emoji |-> "droplet"]
             ELSE IF status = "Mild Drought"
               THEN [status |-> "Mild Drought", class |-> "status-warning", emoji |-> "warning"]
             ELSE IF status = "Moderate Drought"
               THEN [status |-> "Moderate", class |-> "status-warning", emoji |-> "warning"]
             ELSE [status |-> status, class |-> "status-critical", emoji |-> "fire"]
    ELSE droughtFromRainfall(rainfall)

getDroughtStatus(rainfall, droughtData) ==
    IF TruthyString(droughtData.status)
    THEN LET status == droughtData.status[1]
         IN  IF status = "Normal"
               THEN [status |-> "No Drought", class |-> "status-healthy", emoji |-> "droplet"]
             ELSE IF status = "Mild Drought"
               THEN [status |-> "Mild Drought", class |-> "status-warning", emoji |-> "warning"]
             ELSE IF status = "Moderate Drought"
               THEN [status |-> "Moderate", class |-> "status-warning", emoji |-> "warning"]
             ELSE [status |-> status, class |-> "status-critical", emoji |-> "fire"]
    ELSE droughtFromRainfall(rainfall)

\* the "Total Rain (mm)" value: Some(tenths) for a number shown with one
\* decimal, None for 'N/A'
totalRainOf(rainfallStats, rainfallData) ==
    IF TruthyNumber(rainfallStats.total_rainfall)
      THEN Some(toFixed1(rainfallStats.total_rainfall[1]))
    ELSE IF Len(rainfallData) > 0
      THEN Some(toFixed1(SumRain(rainfallData)))
    ELSE None

(* getNDVIStatus *)
\* the comparisons made strict (ndvi > 0.6, > 0.4, > 0.2)
getNDVIStatusStrict(ndvi) ==
    IF ndvi > 600 THEN [status |-> "Excellent", class |-> "ndvi-healthy", emoji |-> "herb"]
    ELSE IF ndvi > 400 THEN [status |-> "Good", class |-> "ndvi-healthy", emoji |-> "seedling"]
    ELSE IF ndvi > 200 THEN [status |-> "Moderate", class |-> "ndvi-moderate", emoji |-> "rice"]
    ELSE [status |-> "Poor", class |-> "ndvi-poor", emoji |-> "desert"]

getNDVIStatus(ndvi) ==
    IF ndvi >= 600 THEN [status |-> "Excellent", class |-> "ndvi-healthy", emoji |-> "herb"]
    ELSE IF ndvi >= 400 THEN [status |-> "Good", class |-> "ndvi-healthy", emoji |-> "seedling"]
    ELSE IF ndvi >= 200 THEN [status |-> "Moderate", class |-> "ndvi-moderate", emoji |-> "rice"]
    ELSE [status |-> "Poor", class |-> "ndvi-poor", emoji |-> "desert"]

\* results.ndvi || 0
ndviValueOf(results) == OrZero(results.ndvi)

(* landcoverStats *)
LANDCOVER_CLASSES ==
    [ code \in {10, 20, 30, 40, 50, 60, 70, 80, 90, 95, 100} |->
        CASE code = 10 -> [name |-> "Tree Cover", color |-> "#22c55e", class |-> "forest"]
          [] code = 20 -> [name |-> "Shrubland", color |-> "#84cc16", class |-> "forest"]
          [] code = 30 -> [name |-> "Grassland", color |-> "#a3e635", class |-> "forest"]
          [] code = 40 -> [name |-> "Cropland", color |-> "#10b981", class |-> "cropland"]
          [] code = 50 -> [name |-> "Built-up", color |-> "#64748b", class |-> "urban"]
          [] code = 60 -> [name |-> "Bare/Sparse", color |-> "#d4a574", class |-> "urban"]
          [] code = 70 -> [name |-> "Snow/Ice", color |-> "#e0f2fe", class |-> "water"]
          [] code = 80 -> [name |-> "Water", color |-> "#3b82f6", class |-> "water"]
          [] code = 90 -> [name |-> "Wetland", color |-> "#06b6d4", class |-> "water"]
          [] code = 95 -> [name |-> "Mangroves", color |-> "#059669", class |-> "forest"]
          [] code = 100 -> [name |-> "Moss/Lichen", color |-> "#65a30d", class |-> "forest"] ]

\* results.landcover || {}
landcoverOf(results) ==
    IF results.landcover = None THEN << >> ELSE results.landcover[1]

RECURSIVE KeysInOrder(_)
\* the keys of an object in iteration order: integer keys ascending
KeysInOrder(keys) ==
    IF keys = {} THEN << >>
    ELSE LET least == CHOOSE k \in keys : \A other \in keys : k <= other
         IN  << least >> \o KeysInOrder(keys \ {least})

RECURSIVE SumCounts(_, _)
\* Object.values(landcover).reduce((sum, val) => sum + val, 0)
SumCounts(landcover, keys) ==
    IF keys = << >> THEN 0
    ELSE landcover[Head(keys)] + SumCounts(landcover, Tail(keys))

\* ((count / totalPixels) * 100).toFixed(1), as a count of tenths of a percent,
\* or the number 0 when totalPixels is 0.  (The inputs avoid quotients that lie
\* exactly between two tenths.)
percentOf(count, totalPixels) ==
    IF totalPixels > 0 THEN (count * 2000 + totalPixels) \div (2 * totalPixels) ELSE 0

\* one item of landcoverStats
landcoverItem(code, count, totalPixels) ==
    [ code |-> code,
      name |-> IF code \in DOMAIN LANDCOVER_CLASSES
                 THEN LANDCOVER_CLASSES[code].name ELSE "Class " \o ToString(code),
      color |-> IF code \in DOMAIN LANDCOVER_CLASSES
                  THEN LANDCOVER_CLASSES[code].color ELSE "#64748b",
      cssClass |-> IF code \in DOMAIN LANDCOVER_CLASSES
                     THEN LANDCOVER_CLASSES[code].class ELSE "urban",
      percent |-> percentOf(count, totalPixels) ]

\* the comparator with its operands exchanged (a.percent - b.percent)
comesBeforeAscending(a, b) == a.percent < b.percent

\* (a, b) => b.percent - a.percent is negative: a is sorted before b
comesBefore(a, b) == b.percent - a.percent < 0

RECURSIVE InsertSorted(_, _)
\* the place of item in an already sorted sequence: behind every item that
\* does not have to come after it (Array.prototype.sort is stable)
InsertSorted(sorted, item) ==
    IF sorted = << >> THEN << item >>
    ELSE IF comesBefore(item, Head(sorted)) THEN << item >> \o sorted
    ELSE << Head(sorted) >> \o InsertSorted(Tail(sorted), item)

RECURSIVE SortItems(_, _)
\* .sort((a, b) => b.percent - a.percent): items inserted in their order
SortItems(items, sorted) ==
    IF items = << >> THEN sorted
    ELSE SortItems(Tail(items), InsertSorted(sorted, Head(items)))

\* .slice(0, 5)
topItems(items) == SubSeq(items, 1, IF Len(items) < 5 THEN Len(items) ELSE 5)

landcoverStatsOf(landcover) ==
    LET keys == KeysInOrder(DOMAIN landcover)
        totalPixels == SumCounts(landcover, keys)
        items == [i \in 1..Len(keys) |->
                    landcoverItem(keys[i], landcover[keys[i]], totalPixels)]
    IN  topItems(SortItems(items, << >>))

(* RainfallChart *)
\* points the chart plots at most
ChartLimit == 30

\* new Date(item.date).toLocaleDateString('en-US', {month: 'short', day:
\* 'numeric'}) for a day number of a non-leap year up to March
DateLabel(day) ==
    IF day <= 31 THEN [month |-> "Jan", day |-> day]
    ELSE IF day <= 59 THEN [month |-> "Feb", day |-> day - 31]
    ELSE [month |-> "Mar", day |-> day - 59]

RECURSIVE FilterRain(_)
\* data.filter(item => item.rain !== null && item.rain !== undefined)
FilterRain(data) ==
    IF data = << >> THEN << >>
    ELSE IF Head(data).rain # None THEN << Head(data) >> \o FilterRain(Tail(data))
    ELSE FilterRain(Tail(data))

\* one point: the date label ('' without a date) and
\* parseFloat(item.rain?.toFixed(2)) || 0; amounts are whole hundredths
chartPoint(item) ==
    [ date |-> IF item.date # None THEN Some(DateLabel(item.date[1])) ELSE None,
      rainfall |-> OrZero(item.rain) ]

\* chartData of RainfallChart
chartDataOf(data) ==
    LET kept == FilterRain(data)
        points == [i \in 1..Len(kept) |-> chartPoint(kept[i])]
    IN  SubSeq(points, 1, IF Len(points) < ChartLimit THEN Len(points) ELSE ChartLimit)

\* What the panel renders for its props: the error card, the empty state, or
\* the report with its derived values.  chartData is None when the chart is
\* not rendered (rainfallData is empty).
ResultsPanel(results, loading, err) ==
    IF TruthyString(err)
      THEN [panel |-> "error", message |-> err, ndviStatus |-> None,
            droughtStatus |-> None, totalRain |-> None,
            landcoverStats |-> << >>, chartData |-> None]
    ELSE IF results = None
      THEN [panel |-> "empty", message |-> None, ndviStatus |-> None,
            droughtStatus |-> None, totalRain |-> None,
            landcoverStats |-> << >>, chartData |-> None]
    ELSE LET ndviValue == ndviValueOf(results[1])
             rainfallData == rainfallDataOf(results[1])
             rainfallStats == rainfallStatsOf(results[1])
             droughtData == droughtDataOf(results[1])
             landcover == landcoverOf(results[1])
         IN  [panel |-> "results", message |-> None,
              ndviStatus |-> Some(getNDVIStatus(ndviValue)),
              droughtStatus |-> Some(getDroughtStatus(rainfallData, droughtData)),
              totalRain |-> totalRainOf(rainfallStats, rainfallData),
              landcoverStats |-> landcoverStatsOf(landcover),
              chartData |-> IF Len(rainfallData) > 0
                              THEN Some(chartDataOf(rainfallData)) ELSE None]

(* ------------------------------- state --------------------------------- *)
VARIABLES
    userLocation,     \* useState(null): None or Some(point)
    mapCenter,        \* useState(defaultCenter)
    polygon,          \* useState(null): None or Some(the drawn overlay object)
    overlayOnMap,     \* whether the drawn overlay object is attached to the map
    polygonPath,      \* useState([]): sequence of points
    circleCenter,     \* useState(null): None or Some(point)
    circleRadius,     \* useState(250)
    drawMode,         \* useState(null): "null", "circle" or "polygon"
    showDrawOptions,  \* useState(false)
    isLoading,        \* useState(false)
    analysisResults,  \* useState(null): None or Some(response data)
    error,            \* useState(null): None or Some(message)
    inflight,         \* POST /analyze requests sent and not yet settled
    geoPending,       \* getCurrentPosition calls not yet called back
    lastOp,           \* history: name of the handler that ran last
    view              \* what ResultsPanel rendered last (None before a render)

vars == << userLocation, mapCenter, polygon, overlayOnMap, polygonPath,
           circleCenter, circleRadius, drawMode, showDrawOptions, isLoading,
           analysisResults, error, inflight, geoPending, lastOp, view >>

selectionVars == << polygon, overlayOnMap, polygonPath, circleCenter >>
requestVars == << isLoading, analysisResults, error, inflight >>
locationVars == << userLocation, mapCenter, geoPending >>

(* ------------------------- render-time conditions ---------------------- *)
hasBoundary == Len(polygonPath) > 0 \/ polygon # None

\* the draw options panel is rendered
DrawOptionsVisible == showDrawOptions /\ ~hasBoundary /\ drawMode = "null"

\* the "Select Farm Area" button is rendered
SelectButtonVisible == ~hasBoundary /\ drawMode = "null"

\* the Analyze and Clear buttons are rendered
BoundaryButtonsVisible == hasBoundary /\ drawMode = "null"

\* the Analyze button is rendered and not disabled
AnalyzeEnabledNoLoadingCheck == BoundaryButtonsVisible
AnalyzeEnabled == BoundaryButtonsVisible /\ ~isLoading

(* ------------------------------ Init ----------------------------------- *)
Init ==
    /\ userLocation = None
    /\ mapCenter = defaultCenter
    /\ polygon = None
    /\ overlayOnMap = FALSE
    /\ polygonPath = << >>
    /\ circleCenter = None
    /\ circleRadius = DefaultRadius
    /\ drawMode = "null"
    /\ showDrawOptions = FALSE
    /\ isLoading = FALSE
    /\ analysisResults = None
    /\ error = None
    /\ inflight = << >>
    /\ geoPending = 0
    /\ lastOp = "init"
    /\ view = ResultsPanel(None, FALSE, None)

\* React renders after every update: the panel is recomputed from the new props
Render == view' = ResultsPanel(analysisResults', isLoading', error')

(* --------------------------- geolocation ------------------------------- *)
\* supported: whether navigator.geolocation exists in this browser
handleEnableLocation(supported) ==
    /\ IF supported
         THEN /\ geoPending < MaxGeoPending
              /\ geoPending' = geoPending + 1
              /\ error' = error
         ELSE /\ error' = Some(MsgGeoUnsupported)
              /\ geoPending' = geoPending
    /\ lastOp' = "enableLocation"
    /\ UNCHANGED << userLocation, mapCenter, selectionVars, circleRadius,
                    drawMode, showDrawOptions, isLoading, analysisResults,
                    inflight >>
    /\ Render

GeoSuccess(location) ==
    /\ geoPending > 0
    /\ geoPending' = geoPending - 1
    /\ userLocation' = Some(location)
    /\ mapCenter' = location
    /\ lastOp' = "geoSuccess"
    /\ UNCHANGED << selectionVars, circleRadius, drawMode, showDrawOptions,
                    requestVars >>
    /\ Render

GeoError ==
    /\ geoPending > 0
    /\ geoPending' = geoPending - 1
    /\ error' = Some(MsgGeoDenied)
    /\ lastOp' = "geoError"
    /\ UNCHANGED << userLocation, mapCenter, selectionVars, circleRadius,
                    drawMode, showDrawOptions, isLoading, analysisResults,
                    inflight >>
    /\ Render

(* ------------------------- draw options panel -------------------------- *)
OpenDrawOptions ==
    /\ SelectButtonVisible
    /\ showDrawOptions' = TRUE
    /\ lastOp' = "openDrawOptions"
    /\ UNCHANGED << locationVars, selectionVars, circleRadius, drawMode,
                    requestVars >>
    /\ Render

CloseDrawOptions ==
    /\ DrawOptionsVisible
    /\ showDrawOptions' = FALSE
    /\ lastOp' = "closeDrawOptions"
    /\ UNCHANGED << locationVars, selectionVars, circleRadius, drawMode,
                    requestVars >>
    /\ Render

\* the radius buttons rendered whether or not the panel is shown
SetCircleRadiusAnyTime(value) ==
    /\ circleRadius' = value
    /\ lastOp' = "setCircleRadius"
    /\ UNCHANGED << locationVars, selectionVars, drawMode, showDrawOptions,
                    requestVars >>
    /\ Render

SetCircleRadius(value) ==
    /\ DrawOptionsVisible
    /\ circleRadius' = value
    /\ lastOp' = "setCircleRadius"
    /\ UNCHANGED << locationVars, selectionVars, drawMode, showDrawOptions,
                    requestVars >>
    /\ Render

SetDrawMode(mode) ==
    /\ DrawOptionsVisible
    /\ drawMode' = mode
    /\ lastOp' = "setDrawMode"
    /\ UNCHANGED << locationVars, selectionVars, circleRadius,
                    showDrawOptions, requestVars >>
    /\ Render

(* ------------------------------ selection ------------------------------ *)
\* onClick of the map
handleMapClick(clickedLocation) ==
    IF drawMode = "circle"
    THEN /\ circleCenter' = Some(clickedLocation)
         /\ polygonPath' = circleToPolygon(clickedLocation, circleRadius, NumPoints)
         /\ drawMode' = "null"
         /\ showDrawOptions' = FALSE
         /\ lastOp' = "mapClick"
         /\ UNCHANGED << locationVars, polygon, overlayOnMap, circleRadius,
                         requestVars >>
         /\ Render
    ELSE UNCHANGED << locationVars, selectionVars, circleRadius, drawMode,
                      showDrawOptions, requestVars, lastOp, view >>

\* the "Use My Location" button, rendered in the panel when userLocation is set
handleUseMyLocation ==
    /\ DrawOptionsVisible
    /\ userLocation # None
    /\ IF userLocation # None
         THEN /\ circleCenter' = userLocation
              /\ polygonPath' = circleToPolygon(userLocation[1], circleRadius, NumPoints)
              /\ drawMode' = "null"
              /\ showDrawOptions' = FALSE
              /\ error' = error
         ELSE /\ error' = Some(MsgEnableFirst)
              /\ UNCHANGED << circleCenter, polygonPath, drawMode, showDrawOptions >>
    /\ lastOp' = "useMyLocation"
    /\ UNCHANGED << locationVars, polygon, overlayOnMap, circleRadius,
                    isLoading, analysisResults, inflight >>
    /\ Render

\* handlePolygonComplete without setDrawMode(null)
handlePolygonCompleteStayingInMode(path) ==
    /\ drawMode = "polygon"
    /\ polygon' = Some([path |-> path])
    /\ overlayOnMap' = TRUE
    /\ polygonPath' = path
    /\ showDrawOptions' = FALSE
    /\ lastOp' = "polygonComplete"
    /\ UNCHANGED << locationVars, circleCenter, circleRadius, drawMode,
                    requestVars >>
    /\ Render

\* onPolygonComplete of the DrawingManager, mounted in polygon mode
handlePolygonComplete(path) ==
    /\ drawMode = "polygon"
    /\ polygon' = Some([path |-> path])
    /\ overlayOnMap' = TRUE
    /\ polygonPath' = path
    /\ drawMode' = "null"
    /\ showDrawOptions' = FALSE
    /\ lastOp' = "polygonComplete"
    /\ UNCHANGED << locationVars, circleCenter, circleRadius, requestVars >>
    /\ Render

\* handleCancelDrawing with the body of handleClearBoundary pasted in
handleCancelDrawingClearing ==
    /\ drawMode # "null"
    /\ polygon' = None
    /\ overlayOnMap' = (IF polygon # None THEN FALSE ELSE overlayOnMap)
    /\ polygonPath' = << >>
    /\ circleCenter' = None
    /\ analysisResults' = None
    /\ drawMode' = "null"
    /\ showDrawOptions' = FALSE
    /\ lastOp' = "cancelDrawing"
    /\ UNCHANGED << locationVars, circleRadius, isLoading, error, inflight >>
    /\ Render

\* the Cancel button of the drawing instructions, rendered in a draw mode
handleCancelDrawing ==
    /\ drawMode # "null"
    /\ IF polygon # None
         THEN overlayOnMap' = FALSE /\ polygon' = None
         ELSE UNCHANGED << overlayOnMap, polygon >>
    /\ drawMode' = "null"
    /\ showDrawOptions' = FALSE
    /\ lastOp' = "cancelDrawing"
    /\ UNCHANGED << locationVars, polygonPath, circleCenter, circleRadius,
                    requestVars >>
    /\ Render

\* handleClearBoundary without setCircleCenter(null)
handleClearBoundaryKeepingCircle ==
    /\ BoundaryButtonsVisible
    /\ overlayOnMap' = (IF polygon # None THEN FALSE ELSE overlayOnMap)
    /\ polygon' = None
    /\ polygonPath' = << >>
    /\ analysisResults' = None
    /\ drawMode' = "null"
    /\ inflight' = [i \in 1..Len(inflight) |-> [inflight[i] EXCEPT !.cleared = TRUE]]
    /\ lastOp' = "clearBoundary"
    /\ UNCHANGED << locationVars, circleCenter, circleRadius, showDrawOptions,
                    isLoading, error >>
    /\ Render

\* the "Clear Selection" button
handleClearBoundary ==
    /\ BoundaryButtonsVisible
    /\ overlayOnMap' = (IF polygon # None THEN FALSE ELSE overlayOnMap)
    /\ polygon' = None
    /\ polygonPath' = << >>
    /\ circleCenter' = None
    /\ analysisResults' = None
    /\ drawMode' = "null"
    \* bookkeeping: the requests in flight were sent before this clear
    /\ inflight' = [i \in 1..Len(inflight) |-> [inflight[i] EXCEPT !.cleared = TRUE]]
    /\ lastOp' = "clearBoundary"
    /\ UNCHANGED << locationVars, circleRadius, showDrawOptions, isLoading,
                    error >>
    /\ Render

(* ------------------------------ analysis ------------------------------- *)
\* two response payloads of the analysis service
SampleResults ==
    { [ rainfall |-> Some([ features |-> Some(<< [date |-> Some(1), rain |-> Some(200)],
                                                 [date |-> Some(2), rain |-> None] >>),
                            statistics |-> Some([total_rainfall |-> Some(4256)]) ]),
        drought |-> Some([status |-> Some("Normal")]),
        ndvi |-> Some(650),
        landcover |-> Some((40 :> 80) @@ (80 :> 20)) ],
      [ rainfall |-> None, drought |-> None, ndvi |-> None, landcover |-> None ] }

\* rejections of axios.post: no response (network error, timeout after
\* 120000 ms) or a non-success response, whose body may carry an error text
Failures ==
    { [code |-> "ERR_NETWORK", response |-> None],
      [code |-> "ECONNABORTED", response |-> None],
      [code |-> "ERR_BAD_RESPONSE", response |-> Some([data |-> None])] }
    \cup { [code |-> "ERR_BAD_RESPONSE",
            response |-> Some([data |-> Some([error |-> m])])] :
           m \in {None, Some(""), Some(ServerMsg)} }

\* polygonPath.length < 3, with the comparison off by one
isInvalidSelectionOffByOne(path) == Len(path) < 2
isInvalidSelection(path) == Len(path) < 3

\* the ring with the pairs left in [lat, lng] order
coordinatesOfUnswapped(path) ==
    LET coordinates == [i \in 1..Len(path) |-> << path[i].lat, path[i].lng >>]
    IN  Append(coordinates, coordinates[1])

\* the ring left open
coordinatesOfOpen(path) ==
    [i \in 1..Len(path) |-> << path[i].lng, path[i].lat >>]

\* polygonPath.map(point => [point.lng, point.lat]), then push(coordinates[0])
coordinatesOf(path) ==
    LET coordinates == [i \in 1..Len(path) |-> << path[i].lng, path[i].lat >>]
    IN  Append(coordinates, coordinates[1])

geometryOf(path) == [type |-> "Polygon", coordinates |-> << coordinatesOf(path) >>]

\* err.response?.data?.error || 'Failed to analyze the area. Please try again.'
errorMessageOf(err) ==
    IF err.response = None THEN MsgGeneric
    ELSE IF err.response[1].data = None THEN MsgGeneric
    ELSE IF TruthyString(err.response[1].data[1].error)
      THEN err.response[1].data[1].error[1]
    ELSE MsgGeneric

RemoveAt(seq, i) == [j \in 1..(Len(seq) - 1) |-> IF j < i THEN seq[j] ELSE seq[j + 1]]

\* the Analyze button, up to the await of axios.post
handleAnalyze ==
    /\ AnalyzeEnabled
    /\ IF isInvalidSelection(polygonPath)
         THEN /\ error' = Some(MsgSelectFirst)
              /\ UNCHANGED << isLoading, inflight >>
         ELSE /\ Len(inflight) < MaxInFlight
              /\ isLoading' = TRUE
              /\ error' = None
              \* prior and cleared are bookkeeping: the result shown when the
              \* request was sent, and whether clear ran since
              /\ inflight' = Append(inflight,
                     [ body |-> [geometry |-> geometryOf(polygonPath)],
                       prior |-> analysisResults,
                       cleared |-> FALSE ])
    /\ lastOp' = "analyze"
    /\ UNCHANGED << locationVars, selectionVars, circleRadius, drawMode,
                    showDrawOptions, analysisResults >>
    /\ Render

\* the success path also calling setError(null)
AnalyzeResolvedClearingError(i, data) ==
    /\ i \in 1..Len(inflight)
    /\ analysisResults' = Some(data)
    /\ error' = None
    /\ isLoading' = FALSE
    /\ inflight' = RemoveAt(inflight, i)
    /\ lastOp' = "analyzeResolved"
    /\ UNCHANGED << locationVars, selectionVars, circleRadius, drawMode,
                    showDrawOptions >>
    /\ Render

\* handleAnalyze after the await: the request resolved with response.data
AnalyzeResolved(i, data) ==
    /\ i \in 1..Len(inflight)
    /\ analysisResults' = Some(data)
    /\ isLoading' = FALSE
    /\ inflight' = RemoveAt(inflight, i)
    /\ lastOp' = "analyzeResolved"
    /\ UNCHANGED << locationVars, selectionVars, circleRadius, drawMode,
                    showDrawOptions, error >>
    /\ Render

\* the catch block also dropping the result shown
AnalyzeRejectedDroppingResult(i, err) ==
    /\ i \in 1..Len(inflight)
    /\ error' = Some(errorMessageOf(err))
    /\ analysisResults' = None
    /\ isLoading' = FALSE
    /\ inflight' = RemoveAt(inflight, i)
    /\ lastOp' = "analyzeRejected"
    /\ UNCHANGED << locationVars, selectionVars, circleRadius, drawMode,
                    showDrawOptions >>
    /\ Render

\* the catch block without the finally block
AnalyzeRejectedNoFinally(i, err) ==
    /\ i \in 1..Len(inflight)
    /\ error' = Some(errorMessageOf(err))
    /\ inflight' = RemoveAt(inflight, i)
    /\ lastOp' = "analyzeRejected"
    /\ UNCHANGED << locationVars, selectionVars, circleRadius, drawMode,
                    showDrawOptions, analysisResults, isLoading >>
    /\ Render

\* handleAnalyze after the await: the request was rejected with err
AnalyzeRejected(i, err) ==
    /\ i \in 1..Len(inflight)
    /\ error' = Some(errorMessageOf(err))
    /\ isLoading' = FALSE
    /\ inflight' = RemoveAt(inflight, i)
    /\ lastOp' = "analyzeRejected"
    /\ UNCHANGED << locationVars, selectionVars, circleRadius, drawMode,
                    showDrawOptions, analysisResults >>
    /\ Render

\* the Dismiss button of the error card
onClearError ==
    /\ TruthyString(error)
    /\ error' = None
    /\ lastOp' = "clearError"
    /\ UNCHANGED << locationVars, selectionVars, circleRadius, drawMode,
                    showDrawOptions, isLoading, analysisResults, inflight >>
    /\ Render

(* --------------------------- specification ----------------------------- *)
Next ==
    \/ \E supported \in BOOLEAN : handleEnableLocation(supported)
    \/ \E location \in Points : GeoSuccess(location)
    \/ GeoError
    \/ OpenDrawOptions
    \/ CloseDrawOptions
    \/ \E value \in RADIUS_OPTIONS : SetCircleRadius(value)
    \/ \E mode \in {"circle", "polygon"} : SetDrawMode(mode)
    \/ \E clickedLocation \in Points : handleMapClick(clickedLocation)
    \/ handleUseMyLocation
    \/ \E path \in DrawnPaths : handlePolygonComplete(path)
    \/ handleCancelDrawing
    \/ handleClearBoundary
    \/ handleAnalyze
    \/ \E i \in 1..MaxInFlight, data \in SampleResults : AnalyzeResolved(i, data)
    \/ \E i \in 1..MaxInFlight, err \in Failures : AnalyzeRejected(i, err)
    \/ onClearError

Spec == Init /\ [][Next]_vars

\* axios.post settles: it resolves, rejects, or times out after 120000 ms
Settle ==
    \/ \E i \in 1..MaxInFlight, data \in SampleResults : AnalyzeResolved(i, data)
    \/ \E i \in 1..MaxInFlight, err \in Failures : AnalyzeRejected(i, err)

\* the application with every request sent eventually settling
LiveSpec == Spec /\ WF_vars(Settle)

(* ---------------------- the classifier on its own ---------------------- *)
\* longest rainfall series among the classifier's inputs
MaxSeries == 2

RainAmounts == {0, 148, 200, 500}
TotalAmounts == {0, 4256}
DroughtStatuses == {"", "Normal", "Mild Drought", "Moderate Drought",
                    "Severe Drought", "Extreme Drought"}

Optional(S) == {None} \cup {Some(x) : x \in S}

\* short series, dated by position
SeriesInputs ==
    UNION { { [i \in 1..n |-> [date |-> Some(i), rain |-> rains[i]]] :
                rains \in [1..n -> Optional(RainAmounts)] } : n \in 0..MaxSeries }

RainfallInputs ==
    Optional([ features : Optional(SeriesInputs),
               statistics : Optional([total_rainfall : Optional(TotalAmounts)]) ])

DroughtInputs == Optional([status : Optional(DroughtStatuses)])

NdviInputs == Optional({0 - 100, 0, 199, 200, 399, 400, 599, 600, 850})

\* most classes a land-cover mapping of the inputs has
MaxClasses == 6

\* class codes of the inputs: the first MaxClasses of these (3 is no known class)
CodeList == << 3, 10, 40, 50, 80, 95, 20, 100 >>

PixelCounts == {0, 1, 2}

LandcoverInputs ==
    Optional(UNION { [codes -> PixelCounts] :
                       codes \in SUBSET { CodeList[i] : i \in 1..MaxClasses } })

\* longest series among the inputs of the chart
MaxDays == 32

\* long series for the chart: one entry a day, the rain missing on some of
\* the first days
ChartSeriesInputs ==
    { [i \in 1..n |-> [date |-> IF i = 4 THEN None ELSE Some(i),
                       rain |-> IF i \in missing THEN None ELSE Some(10 * i)]] :
        n \in 0..MaxDays, missing \in SUBSET {1, 3} }

\* a section absent, or present with one value
RainfallFew ==
    { None, Some([ features |-> Some(<< [date |-> Some(1), rain |-> Some(500)] >>),
                   statistics |-> Some([total_rainfall |-> Some(4256)]) ]) }
DroughtFew == { None, Some([status |-> Some("Mild Drought")]) }
NdviFew == { None, Some(650) }
LandcoverFew == { None, Some((40 :> 2) @@ (80 :> 1)) }

ResultInputs ==
    [ rainfall : RainfallInputs, drought : DroughtInputs,
      ndvi : NdviFew, landcover : LandcoverFew ]
    \cup [ rainfall : RainfallFew, drought : DroughtFew,
           ndvi : NdviInputs, landcover : LandcoverFew ]
    \cup [ rainfall : {None}, drought : {None}, ndvi : NdviFew,
           landcover : LandcoverInputs ]
    \cup [ rainfall : { Some([features |-> Some(series), statistics |-> None]) :
                          series \in ChartSeriesInputs },
           drought : {None}, ndvi : {None}, landcover : {None} ]

\* ResultsPanel rendered with the first result of a session as its results prop
RenderResults(data) ==
    /\ analysisResults = None
    /\ analysisResults' = Some(data)
    /\ lastOp' = "renderResults"
    /\ UNCHANGED << locationVars, selectionVars, circleRadius, drawMode,
                    showDrawOptions, isLoading, error, inflight >>
    /\ Render

\* the panel is rendered once, with any of the inputs
ClassifierNext ==
    \E data \in (IF analysisResults = None THEN ResultInputs ELSE {}) :
        RenderResults(data)

ClassifierSpec == Init /\ [][ClassifierNext]_vars

(* ------------------------------- claims -------------------------------- *)

\* C1: a response that arrives after handleClearBoundary ran during its
\* flight is disregarded: processing it leaves analysisResults null.
C1_LateResponseDisregarded ==
    [][ \A i \in 1..MaxInFlight, data \in SampleResults :
          (AnalyzeResolved(i, data) /\ inflight[i].cleared)
              => analysisResults' = None ]_vars

\* C2: at most one analysis request is in flight, and while one is, isLoading
\* is true and the Analyze button is not usable, whatever else interleaves.
C2_SingleRequestInFlight ==
    /\ Len(inflight) <= 1
    /\ Len(inflight) = 1 => (isLoading /\ ~AnalyzeEnabled)

\* C2 witness: a request in flight across a clear and a new selection, with
\* the Analyze button rendered
C2_Witness ==
    /\ Len(inflight) = 1
    /\ inflight[1].cleared
    /\ BoundaryButtonsVisible
    /\ error # None

\* C3: handleAnalyze on fewer than 3 vertices sets the invalid-selection
\* error, sends nothing and leaves isLoading, analysisResults and polygonPath.
C3_InvalidSelectionRejected ==
    [][ (handleAnalyze /\ Len(polygonPath) < 3)
          => /\ error' = Some(MsgSelectFirst)
             /\ inflight' = inflight
             /\ UNCHANGED << isLoading, analysisResults, polygonPath >> ]_vars

\* C3 witness: the Analyze button was pressed on a two-vertex shape
C3_Witness ==
    /\ lastOp = "analyze"
    /\ Len(polygonPath) = 2
    /\ error = Some(MsgSelectFirst)
    /\ inflight = << >>

\* C4: for n >= 3 vertices the request body has one ring of n+1 pairs, pair i
\* is [lng, lat] of vertex i in order, and the last pair equals the first.
C4_RingClosedLngLat ==
    [][ (handleAnalyze /\ Len(polygonPath) >= 3)
          => LET n == Len(polygonPath)
                 rings == inflight'[Len(inflight')].body.geometry.coordinates
             IN  /\ Len(inflight') = Len(inflight) + 1
                 /\ Len(rings) = 1
                 /\ Len(rings[1]) = n + 1
                 /\ \A i \in 1..n :
                       /\ rings[1][i][1] = polygonPath[i].lng
                       /\ rings[1][i][2] = polygonPath[i].lat
                 /\ rings[1][n + 1] = rings[1][1] ]_vars

\* C4 witness: a request in flight for a drawn three-vertex polygon
C4_Witness ==
    /\ lastOp = "analyze"
    /\ Len(inflight) = 1
    /\ polygon # None
    /\ Len(polygonPath) = 3
    /\ Len(inflight[1].body.geometry.coordinates[1]) = 4

\* the circle was placed by this step
PlacesCircle ==
    \/ \E c \in Points : drawMode = "circle" /\ handleMapClick(c)
    \/ handleUseMyLocation

\* C5: placing a circle replaces polygonPath by exactly 32 vertices, one per
\* sample index (all different, index 0 due north of the center, 8 due east,
\* 16 due south, 24 due west), ready for analysis, and leaves draw mode.
C5_CirclePlacedAs32Vertices ==
    [][ PlacesCircle
          => /\ circleCenter' # None
             /\ Len(polygonPath') = 32
             /\ Cardinality({ polygonPath'[k] : k \in 1..Len(polygonPath') }) = 32
             /\ LET c == circleCenter'[1]
                    p == polygonPath'
                IN  /\ p[1].lng = c.lng /\ p[1].lat > c.lat
                    /\ p[9].lat = c.lat /\ p[9].lng > c.lng
                    /\ p[17].lng = c.lng /\ p[17].lat < c.lat
                    /\ p[25].lat = c.lat /\ p[25].lng < c.lng
             /\ ~isInvalidSelection(polygonPath')
             /\ drawMode' = "null" ]_vars

\* C5 witness: a circle placed by a map click with a radius chosen in the panel
C5_Witness ==
    /\ lastOp = "mapClick"
    /\ circleCenter # None
    /\ circleRadius = 1000
    /\ Len(polygonPath) = 32

\* C6: handleCancelDrawing leaves polygonPath, circleCenter and
\* analysisResults as they are and discards only the drawing state.
C6_CancelKeepsCommittedBoundary ==
    [][ handleCancelDrawing
          => /\ UNCHANGED << polygonPath, circleCenter, analysisResults >>
             /\ drawMode' = "null"
             /\ showDrawOptions' = FALSE
             /\ polygon' = None
             /\ UNCHANGED << locationVars, circleRadius, isLoading, error,
                             inflight >> ]_vars

\* C6 witness: a drawing cancelled while a result is held
C6_Witness ==
    /\ lastOp = "cancelDrawing"
    /\ analysisResults # None
    /\ drawMode = "null"

\* C7: handleClearBoundary returns to the no-selection state: polygonPath
\* empty, overlay and circleCenter null, drawMode null, not ready for analysis.
C7_ClearReturnsToNoSelection ==
    [][ handleClearBoundary
          => /\ polygonPath' = << >>
             /\ polygon' = None
             /\ ~overlayOnMap'
             /\ circleCenter' = None
             /\ drawMode' = "null"
             /\ ~hasBoundary'
             /\ isInvalidSelection(polygonPath') ]_vars

\* C7 witness: a placed circle was cleared
C7_Witness ==
    /\ lastOp = "clearBoundary"
    /\ polygonPath = << >>
    /\ circleCenter = None
    /\ SelectButtonVisible

\* the message a rejection must leave in error: the text the response
\* carries, else the generic message
ExpectedFailureMessage(err) ==
    IF /\ err.response # None
       /\ err.response[1].data # None
       /\ err.response[1].data[1].error \notin {None, Some("")}
    THEN err.response[1].data[1].error[1]
    ELSE MsgGeneric

\* C8 as stated: after a failed request analysisResults has the value it had
\* before the request was sent.
C8_FailureKeepsValueBeforeRequest ==
    [][ \A i \in 1..MaxInFlight, err \in Failures :
          AnalyzeRejected(i, err) => analysisResults' = inflight[i].prior ]_vars

\* C8 amended: a failed request leaves analysisResults as it is at that
\* moment (the value before the request, or null if clear ran during the
\* flight), sets isLoading to false and error to the response's message or
\* else the generic one; dismissing the error then shows that result again.
C8_FailureLeavesResultUntouched ==
    [][ /\ \A i \in 1..MaxInFlight, err \in Failures :
             AnalyzeRejected(i, err)
               => /\ analysisResults' = analysisResults
                  /\ analysisResults' =
                        (IF inflight[i].cleared THEN None ELSE inflight[i].prior)
                  /\ isLoading' = FALSE
                  /\ error' = Some(ExpectedFailureMessage(err))
                  /\ view'.panel = "error"
        /\ (lastOp = "analyzeRejected" /\ onClearError)
               => /\ analysisResults' = analysisResults
                  /\ view'.panel = (IF analysisResults = None THEN "empty" ELSE "results")
      ]_vars

\* C8 witness: a request failed with the server's message while a prior
\* result was held
C8_Witness ==
    /\ lastOp = "analyzeRejected"
    /\ analysisResults # None
    /\ error = Some(ServerMsg)
    /\ ~isLoading

\* the statistics total of a result, if the result carries one
StatisticsTotal(results) ==
    IF results.rainfall = None THEN None
    ELSE IF results.rainfall[1].statistics = None THEN None
    ELSE results.rainfall[1].statistics[1].total_rainfall

\* C9: whenever the statistics total is present, 0 included, it is the total
\* shown; else the sum of a non-empty series; else 'N/A'.
C9_StatisticsTotalPreferred ==
    analysisResults # None =>
        LET total == StatisticsTotal(analysisResults[1])
            series == rainfallDataOf(analysisResults[1])
        IN  view.totalRain =
              (IF total # None THEN Some(toFixed1(total[1]))
               ELSE IF Len(series) > 0 THEN Some(toFixed1(SumRain(series)))
               ELSE None)

\* the classification the drought status text alone stands for
ExpectedFromStatus(status) ==
    CASE status = "Normal" -> [status |-> "No Drought", class |-> "status-healthy"]
      [] status = "Mild Drought" -> [status |-> "Mild Drought", class |-> "status-warning"]
      [] status = "Moderate Drought" -> [status |-> "Moderate", class |-> "status-warning"]
      [] OTHER -> [status |-> status, class |-> "status-critical"]

\* C10: a non-empty drought.status alone decides the classification, whatever
\* the rainfall series: Normal, Mild Drought and Moderate Drought map to No
\* Drought, Mild Drought and Moderate, any other text is critical and kept.
C10_StatusAloneDecides ==
    (analysisResults # None /\ analysisResults[1].drought # None
       /\ analysisResults[1].drought[1].status \notin {None, Some("")})
    => LET shown == view.droughtStatus[1]
           expected == ExpectedFromStatus(analysisResults[1].drought[1].status[1])
       IN  shown.status = expected.status /\ shown.class = expected.class

\* C10 witness: a severe status shown although the series averages 5 mm
C10_Witness ==
    /\ analysisResults # None
    /\ analysisResults[1].drought = Some([status |-> Some("Severe Drought")])
    /\ Len(rainfallDataOf(analysisResults[1])) = 1
    /\ rainfallDataOf(analysisResults[1])[1].rain = Some(500)
    /\ view.droughtStatus # None
    /\ view.droughtStatus[1].class = "status-critical"
    /\ view.droughtStatus[1].status = "Severe Drought"

\* rain of the i-th entry of a series, a missing value counted as 0
RainAt(series, i) == IF series[i].rain = None THEN 0 ELSE series[i].rain[1]

RECURSIVE RainUpTo(_, _)
\* rain of the first k entries of a series together
RainUpTo(series, k) == IF k = 0 THEN 0 ELSE RainUpTo(series, k - 1) + RainAt(series, k)

\* the drought section gives no status
NoDroughtStatus(results) ==
    \/ results.drought = None
    \/ results.drought[1].status \in {None, Some("")}

\* C11: without a drought status the classification comes from the rainfall
\* series: Unknown if it is empty or absent, else from the average over all
\* entries (missing rain as 0): >= 5 mm No Drought, >= 2 mm Mild Drought,
\* below that severe; never Moderate.
C11_RainfallFallback ==
    (analysisResults # None /\ NoDroughtStatus(analysisResults[1]))
    => LET series == rainfallDataOf(analysisResults[1])
           n == Len(series)
           sum == RainUpTo(series, n)
           shown == view.droughtStatus[1]
       IN  /\ n = 0 => shown.status = "Unknown"
           /\ (n > 0 /\ sum >= 500 * n)
                => (shown.status = "No Drought" /\ shown.class = "status-healthy")
           /\ (n > 0 /\ sum < 500 * n /\ sum >= 200 * n)
                => (shown.status = "Mild Drought" /\ shown.class = "status-warning")
           /\ (n > 0 /\ sum < 200 * n)
                => (shown.status = "Severe Drought" /\ shown.class = "status-critical")
           /\ shown.status # "Moderate"

\* C11 witness: 5 mm and a missing value average 2.5 mm over both entries
C11_Witness ==
    /\ analysisResults # None
    /\ analysisResults[1].drought = None
    /\ Len(rainfallDataOf(analysisResults[1])) = 2
    /\ rainfallDataOf(analysisResults[1])[1].rain = Some(500)
    /\ rainfallDataOf(analysisResults[1])[2].rain = None
    /\ view.droughtStatus = Some([status |-> "Mild Drought", class |-> "status-warning",
                                  emoji |-> "warning"])

\* the land-cover mapping of the result shown
ShownLandcover == landcoverOf(analysisResults[1])

RECURSIVE PixelsOf(_, _)
\* the counts of a mapping over a set of its codes, added up
PixelsOf(landcover, codes) ==
    IF codes = {} THEN 0
    ELSE LET c == CHOOSE x \in codes : TRUE
         IN  landcover[c] + PixelsOf(landcover, codes \ {c})

\* tenths is count / total * 100 rounded to one decimal (0 when total is 0)
IsPercentOf(tenths, count, total) ==
    IF total = 0 THEN tenths = 0
    ELSE /\ 2 * total * tenths - total <= 2000 * count
         /\ 2000 * count < 2 * total * tenths + total

\* the percent (in tenths) the claim gives an entry with this count: the
\* tenth below count / total * 100 or the one above, whichever is nearest
ClaimedPercent(count, total) ==
    LET below == IF total = 0 THEN 0 ELSE (1000 * count) \div total
    IN  CHOOSE t \in {below, below + 1} : IsPercentOf(t, count, total)

\* C12: the breakdown has min(5, entries) items, each with count/total*100
\* rounded to one decimal (0 when the total is 0), in descending percent
\* order, ties in iteration order (ascending integer keys); the rest is
\* dropped; empty gives empty.
C12_LandcoverTopFive ==
    analysisResults # None =>
        LET lc == ShownLandcover
            codes == DOMAIN lc
            total == PixelsOf(lc, codes)
            pct == [c \in codes |-> ClaimedPercent(lc[c], total)]
            stats == view.landcoverStats
        IN  /\ Len(stats) = (IF Cardinality(codes) < 5 THEN Cardinality(codes) ELSE 5)
            /\ \A j \in 1..Len(stats) :
                  /\ stats[j].code \in codes
                  /\ stats[j].percent = pct[stats[j].code]
                  /\ Cardinality({ d \in codes :
                        \/ pct[d] > pct[stats[j].code]
                        \/ pct[d] = pct[stats[j].code] /\ d < stats[j].code }) = j - 1

\* C12 witness: six entries, the first two shown tied, five shown
C12_Witness ==
    /\ analysisResults # None
    /\ Cardinality(DOMAIN ShownLandcover) = 6
    /\ Len(view.landcoverStats) = 5
    /\ view.landcoverStats[1].percent = view.landcoverStats[2].percent
    /\ view.landcoverStats[1].percent > view.landcoverStats[5].percent
    /\ view.landcoverStats[5].percent > 0

\* C13: vegetation status by inclusive lower bounds: ndvi >= 0.6 Excellent,
\* 0.4 <= ndvi < 0.6 Good, 0.2 <= ndvi < 0.4 Moderate, lower (negative too)
\* Poor; an absent ndvi counts as 0 and gives Poor.
C13_VegetationStatus ==
    analysisResults # None =>
        LET given == analysisResults[1].ndvi
            shown == view.ndviStatus[1].status
        IN  /\ given = None => shown = "Poor"
            /\ given # None =>
                 /\ given[1] >= 600 => shown = "Excellent"
                 /\ (400 <= given[1] /\ given[1] < 600) => shown = "Good"
                 /\ (200 <= given[1] /\ given[1] < 400) => shown = "Moderate"
                 /\ given[1] < 200 => shown = "Poor"

\* C13 witness: an ndvi of exactly 0.6 shown as Excellent
C13_Witness ==
    /\ analysisResults # None
    /\ analysisResults[1].ndvi = Some(600)
    /\ view.ndviStatus # None
    /\ view.ndviStatus[1].status = "Excellent"

\* C14: whatever sections are absent, each computation gives its default for
\* its own absent input, whatever the other sections hold: Poor without ndvi,
\* Unknown without a drought status and a series, an empty breakdown without
\* landcover, 'N/A' without a statistics total and a series.
C14_DefaultsForAbsentSections ==
    analysisResults # None =>
        LET r == analysisResults[1]
            noSeries == r.rainfall = None \/ r.rainfall[1].features = None
            noTotal == r.rainfall = None \/ r.rainfall[1].statistics = None
                          \/ r.rainfall[1].statistics[1].total_rainfall = None
        IN  /\ view.panel = "results"
            /\ r.ndvi = None => view.ndviStatus[1].status = "Poor"
            /\ (r.drought = None /\ noSeries) => view.droughtStatus[1].status = "Unknown"
            /\ r.landcover = None => view.landcoverStats = << >>
            /\ (noTotal /\ noSeries) => view.totalRain = None
            /\ noSeries => view.chartData = None

\* C14 witness: a result without any of the four sections, rendered
C14_Witness ==
    /\ analysisResults = Some([rainfall |-> None, drought |-> None,
                               ndvi |-> None, landcover |-> None])
    /\ view.panel = "results"
    /\ view.ndviStatus[1].status = "Poor"
    /\ view.droughtStatus[1].status = "Unknown"
    /\ view.landcoverStats = << >>
    /\ view.totalRain = None

\* positions of the entries of a series that carry a rain value
RainPositions(data) == { i \in 1..Len(data) : data[i].rain # None }

\* the k-th of these positions, in series order
KthRainPosition(data, k) ==
    CHOOSE i \in RainPositions(data) :
        Cardinality({ j \in RainPositions(data) : j < i }) = k - 1

\* the points are the entries at positions from + 1, from + 2, ... of the
\* entries that carry a rain value
PointsFrom(points, data, from) ==
    \A k \in 1..Len(points) :
        LET item == data[KthRainPosition(data, from + k)]
        IN  /\ points[k].rainfall = item.rain[1]
            /\ points[k].date = (IF item.date = None THEN None
                                 ELSE Some(DateLabel(item.date[1])))

\* C20: the chart plots at most 30 points, drops the entries without a rain
\* value before counting, keeps series order, and the points kept are the
\* last 30 of the filtered series.
C20_ChartKeepsLastThirty ==
    (analysisResults # None /\ view.chartData # None)
    => LET data == rainfallDataOf(analysisResults[1])
           points == view.chartData[1]
           kept == Cardinality(RainPositions(data))
       IN  /\ Len(points) = (IF kept < 30 THEN kept ELSE 30)
           /\ PointsFrom(points, data, kept - Len(points))

\* what the chart does plot: the first 30 of the filtered series
ChartKeepsFirstThirty ==
    (analysisResults # None /\ view.chartData # None)
    => LET data == rainfallDataOf(analysisResults[1])
           points == view.chartData[1]
           kept == Cardinality(RainPositions(data))
       IN  /\ Len(points) = (IF kept < 30 THEN kept ELSE 30)
           /\ PointsFrom(points, data, 0)

\* C15: a radius change never resamples a placed circle. While a circle
\* stays placed neither polygonPath nor circleRadius changes, and at placement
\* polygonPath is the 32-point sampling around the new centre with the radius
\* chosen before the pick, which stays the radius of the displayed circle.
C15_RadiusAppliesToNextCircle ==
    [][ /\ (circleCenter # None /\ circleCenter' # None)
           => /\ circleCenter' = circleCenter
              /\ polygonPath' = polygonPath
              /\ circleRadius' = circleRadius
        /\ (circleCenter = None /\ circleCenter' # None)
           => /\ circleRadius' = circleRadius
              /\ polygonPath' = circleToPolygon(circleCenter'[1], circleRadius, NumPoints)
              /\ Len(polygonPath') = 32
      ]_vars

C15_Witness ==
    /\ circleCenter # None
    /\ circleRadius = 500
    /\ lastOp = "mapClick"

\* C16: entering circle or polygon mode changes nothing but
\* drawMode, and polygonPath, circleCenter and analysisResults stay unchanged
\* while the mode is active until a map click or a polygon-complete event
\* completes a new shape.
C16_UnchangedUntilShapeCompleted ==
    [][ /\ (lastOp' = "setDrawMode")
           => UNCHANGED << polygonPath, circleCenter, analysisResults >>
        /\ (drawMode # "null" /\ lastOp' \notin {"mapClick", "polygonComplete"})
           => UNCHANGED << polygonPath, circleCenter, analysisResults >>
      ]_vars

\* what does hold: entering a mode changes only drawMode, and in a draw mode
\* polygonPath and circleCenter change only when a shape is completed, and
\* analysisResults only when the response of an earlier request arrives
EnteringModeChangesOnlyDrawMode ==
    [][ /\ (lastOp' = "setDrawMode")
           => /\ drawMode' \in {"circle", "polygon"}
              /\ UNCHANGED << userLocation, mapCenter, polygon, overlayOnMap,
                              polygonPath, circleCenter, circleRadius,
                              showDrawOptions, isLoading, analysisResults,
                              error, inflight, geoPending, view >>
        /\ (drawMode # "null" /\ lastOp' \notin {"mapClick", "polygonComplete"})
           => UNCHANGED << polygonPath, circleCenter >>
        /\ (drawMode # "null" /\ analysisResults' # analysisResults)
           => lastOp' = "analyzeResolved" /\ inflight[1].cleared
      ]_vars

\* C17, as stated: whenever an analysis request completes successfully,
\* error is null, analysisResults is the response and the results panel
\* shows it.
C17_SuccessShowsResult ==
    [][ (lastOp' = "analyzeResolved")
        => /\ error' = None
           /\ analysisResults' # None
           /\ analysisResults'[1] \in SampleResults
           /\ view'.panel = "results"
      ]_vars

\* C17, amended: whenever an analysis request completes successfully,
\* analysisResults is the response and error is left as it was, which is null
\* unless a geolocation failure was reported during the flight; the panel
\* shows the result if error is null, else the error card, and the result
\* once that error is dismissed.
C17_SuccessKeepsGeolocationError ==
    [][ (lastOp' = "analyzeResolved")
        => /\ analysisResults' # None
           /\ analysisResults'[1] \in SampleResults
           /\ isLoading' = FALSE
           /\ error' = error
           /\ error \in {None, Some(MsgGeoDenied), Some(MsgGeoUnsupported)}
           /\ view'.panel = (IF error = None THEN "results" ELSE "error")
           /\ view'.message = error
           /\ ResultsPanel(analysisResults', isLoading', None).panel = "results"
      ]_vars

C17_Witness ==
    /\ lastOp = "analyzeResolved"
    /\ error = Some(MsgGeoDenied)
    /\ analysisResults # None
    /\ view.panel = "error"

\* C18: whenever a draw mode is active there is no committed boundary:
\* polygonPath is empty, the drawn overlay is null and circleCenter is null;
\* and a circle selection and a drawn polygon are never both present.
C18_DrawModeHasNoBoundary ==
    /\ (drawMode \in {"circle", "polygon"})
       => /\ polygonPath = << >>
          /\ polygon = None
          /\ circleCenter = None
    /\ ~(circleCenter # None /\ polygon # None)

C18_Witness ==
    /\ drawMode = "polygon"
    /\ isLoading
    /\ showDrawOptions

\* C19: every analysis started by handleAnalyze eventually ends. Given that
\* the remote call settles, isLoading becomes false again; it does so only
\* with analysisResults replaced by the response or with error set; and a
\* request is sent only by the Analyze button, never by a retry.
C19_AnalysisEventuallyEnds ==
    /\ isLoading ~> (~isLoading /\ inflight = << >>)
    /\ [][ (isLoading /\ ~isLoading')
           => \/ /\ lastOp' = "analyzeResolved"
                 /\ analysisResults' # None
                 /\ analysisResults'[1] \in SampleResults
              \/ /\ lastOp' = "analyzeRejected"
                 /\ error' # None
                 /\ analysisResults' = analysisResults
         ]_vars
    /\ [][ (inflight' # inflight /\ Len(inflight') >= Len(inflight))
           => /\ lastOp' \in {"analyze", "clearBoundary"}
              /\ (Len(inflight') > Len(inflight)
                  => lastOp' = "analyze" /\ AnalyzeEnabled /\ ~isLoading)
         ]_vars

C19_Witness ==
    /\ lastOp = "analyzeRejected"
    /\ ~isLoading
    /\ inflight = << >>
    /\ error = Some(MsgGeneric)
    /\ AnalyzeEnabled

====
